---- MODULE Spec2Model ----
(***************************************************************************)
(* Model of the three scripts of the repository:                           *)
(*   stat_functions.py  analyze_array and goal_maker                       *)
(*   transcript.py      main with its caption / audio fallback             *)
(* A run is one call of analyze_array, goal_maker or main.  Init draws the *)
(* call and its arguments, the actions are the consecutive blocks of the   *)
(* called function, pc is the position inside it.                          *)
(*                                                                         *)
(* Numbers.  A float is a record [k, v]: k = "fin" with the value v in     *)
(* hundredths (v = 100 * value), or k = "inf", "ninf", "nan".  With        *)
(* integer percentiles and integer population values every interpolated    *)
(* percentile is an exact number of hundredths, so the arithmetic below is *)
(* the exact real arithmetic that the double arithmetic of the code        *)
(* approximates.  A percentile rank is a fraction [num, den].              *)
(***************************************************************************)
EXTENDS Integers, Sequences, FiniteSets, TLC

\* ------------------------------------------------ bounds
MaxLen == 3          \* longest enumerated raw population
MaxVal == 2          \* enumerated finite population values are 1..MaxVal

\* ------------------------------------------------ floats
Fin(v) == [k |-> "fin", v |-> v]
NaN == [k |-> "nan", v |-> 0]
PosInf == [k |-> "inf", v |-> 0]
NegInf == [k |-> "ninf", v |-> 0]
None == [k |-> "none", v |-> 0]
Unset == [k |-> "unset", v |-> 0]

IsNan(a) == a.k = "nan"
IsFinite(a) == a.k = "fin"

\* a < b on doubles: false as soon as one side is nan
FLt(a, b) ==
    /\ ~IsNan(a)
    /\ ~IsNan(b)
    /\ \/ a.k = "ninf" /\ b.k # "ninf"
       \/ b.k = "inf" /\ a.k # "inf"
       \/ a.k = "fin" /\ b.k = "fin" /\ a.v < b.v

\* a <= b on doubles
FLe(a, b) == ~IsNan(a) /\ ~IsNan(b) /\ (a = b \/ FLt(a, b))

FNeg(a) ==
    CASE a.k = "fin" -> Fin(0 - a.v)
      [] a.k = "inf" -> NegInf
      [] a.k = "ninf" -> PosInf
      [] OTHER -> NaN

FAdd(a, b) ==
    CASE IsNan(a) \/ IsNan(b) -> NaN
      [] a.k = "fin" /\ b.k = "fin" -> Fin(a.v + b.v)
      [] a.k = "fin" -> b
      [] b.k = "fin" -> a
      [] a.k = b.k -> a
      [] OTHER -> NaN

FSub(a, b) == FAdd(a, FNeg(b))

\* a * (num / 100) for a factor num / 100 in [0, 1]
FMul(a, num) ==
    CASE IsNan(a) -> NaN
      [] a.k = "fin" -> Fin((a.v * num) \div 100)
      [] num = 0 -> NaN
      [] OTHER -> a

\* ------------------------------------------------ arrays
\* x[~np.isnan(x)]
SelectNotNan(x) == LET NotNan(v) == ~IsNan(v) IN SelectSeq(x, NotNan)

\* np.asarray(x, dtype=float): a missing entry becomes nan
AsArray(x) == [i \in 1..Len(x) |-> IF x[i].k = "none" THEN NaN ELSE x[i]]

\* the two cleaning lines shared by analyze_array and goal_maker
Clean(x) == SelectNotNan(AsArray(x))

\* np.sum(x < s)
CountLt(x, s) == Cardinality({i \in 1..Len(x) : FLt(x[i], s)})
\* np.sum(x <= s)
CountLe(x, s) == Cardinality({i \in 1..Len(x) : FLe(x[i], s)})

\* element of rank k (0-based) of the sorted array
OrderStat(x, k) ==
    LET i == CHOOSE j \in 1..Len(x) :
                 CountLt(x, x[j]) <= k /\ k < CountLe(x, x[j])
    IN x[i]

\* Lerp with the weights of the two ends exchanged
LerpSwapped(a, b, num) == FAdd(a, FMul(FSub(b, a), 100 - num))

\* numpy's _lerp: a + (b - a) * t, recomputed from b when t >= 0.5
Lerp(a, b, num) ==
    LET diff == FSub(b, a)
    IN IF 2 * num >= 100 THEN FSub(b, FMul(diff, 100 - num))
       ELSE FAdd(a, FMul(diff, num))

\* Percentile with the bracketing pair taken one place too high
PercentileOneBased(x, p) ==
    LET n == Len(x)
        pos == p * (n - 1)
        last == n - 1
        prev == IF pos \div 100 + 1 > last THEN last ELSE pos \div 100 + 1
        next == IF prev + 1 > last THEN last ELSE prev + 1
    IN Lerp(OrderStat(x, prev), OrderStat(x, next), pos % 100)

\* np.percentile(x, p), method "linear": position p/100 * (n-1)
Percentile(x, p) ==
    LET n == Len(x)
        pos == p * (n - 1)
        above == pos >= 100 * (n - 1)
        prev == IF above THEN n - 1 ELSE pos \div 100
        next == IF above THEN n - 1 ELSE prev + 1
        gamma == IF above THEN 0 ELSE pos % 100
    IN Lerp(OrderStat(x, prev), OrderStat(x, next), gamma)

RECURSIVE SortSet(_)
\* sorted(S) of a set of integers
SortSet(S) ==
    IF S = {} THEN <<>>
    ELSE LET m == CHOOSE a \in S : \A b \in S : a <= b
         IN <<m>> \o SortSet(S \ {m})

Range(f) == {f[i] : i \in DOMAIN f}

\* ------------------------------------------------ ranks
TieMethods == {"strict", "weak", "mean"}
NoRank == [num |-> 0, den |-> 0]

\* RankOf with the two counts of "mean" added but not halved
RankOfMeanNotHalved(tie, lt, le, n) ==
    CASE tie = "strict" -> [num |-> 100 * lt, den |-> n]
      [] tie = "weak" -> [num |-> 100 * le, den |-> n]
      [] tie = "mean" -> [num |-> 100 * (lt + le), den |-> n]
      [] OTHER -> NoRank

\* RankOf with "weak" counting the values below the score only
RankOfWeakAsStrict(tie, lt, le, n) ==
    CASE tie = "strict" -> [num |-> 100 * lt, den |-> n]
      [] tie = "weak" -> [num |-> 100 * lt, den |-> n]
      [] tie = "mean" -> [num |-> 100 * (lt + le), den |-> 2 * n]
      [] OTHER -> NoRank

\* the tie_method dispatch of goal_maker; a rank is num / den
RankOf(tie, lt, le, n) ==
    CASE tie = "strict" -> [num |-> 100 * lt, den |-> n]
      [] tie = "weak" -> [num |-> 100 * le, den |-> n]
      [] tie = "mean" -> [num |-> 100 * (lt + le), den |-> 2 * n]
      [] OTHER -> NoRank

\* percentile rank of score s in population x under a tie method
PctRank(tie, s, x) == RankOf(tie, CountLt(x, s), CountLe(x, s), Len(x))

\* pct_rank < p for an integer percentile p
RankBelow(r, p) == r.num < p * r.den

\* ------------------------------------------------ inputs
\* entries of an enumerated raw population
FiniteVals == {Fin(100 * v) : v \in 1..MaxVal}
RawVals == {None, NaN, PosInf, NegInf} \cup FiniteVals
RawSeqs == UNION {[1..k -> RawVals] : k \in 0..MaxLen}
FiniteSeqs == UNION {[1..k -> FiniteVals] : k \in 0..MaxLen}
\* enumerated scores: the halves from 0.5 to MaxVal + 0.5
Scores == {Fin(50 * i) : i \in 1..(2 * MaxVal + 1)}
\* enumerated targets arguments; the last one is the default of goal_maker
DefaultTargets == <<80, 90, 95, 99>>
TargetChoices == {<<>>, <<90>>, <<50, 90, 50>>, <<0, 100>>, <<75, 25>>,
                  DefaultTargets}
\* enumerated tie_method arguments, one of them not a tie method
TieChoices == TieMethods \cup {"other"}
\* the percentiles argument of analyze_array (its default)
DefaultPercentiles == <<1, 5, 25, 50, 75, 95, 99>>

\* the populations and scores of the worked scenarios
PopA == [i \in 1..5 |-> Fin(1000 * i)]
PopE == [i \in 1..100 |-> Fin(100 * i)]
ScoreA == Fin(3000)
ScoreE == Fin(9500)

\* ------------------------------------------------ state
VARIABLES
    op,           \* the function called in this run
    pc,           \* position inside it
    raw,          \* the population argument as passed
    targets_arg,  \* the targets argument as passed
    x,            \* the local array x
    score,        \* the score argument (s = float(score))
    targets,      \* the targets argument, then the sorted tuple
    tie_method,   \* the tie_method argument
    n, lt, le,    \* locals of goal_maker (n also of analyze_array); -1 unset
    pct_rank,     \* local pct_rank, NoRank while unset
    thresholds,   \* local dict thresholds
    next_p, gap,  \* locals of the coaching block; -1 and Unset while unset
    stats,        \* local dict stats of analyze_array
    outcome,      \* which closing line was printed
    named,        \* the percentile that the closing line names; -1 unset
    printed,      \* the blocks printed so far, in order
    raised,       \* the exception that ended the call, "none" if none
    url_or_id,    \* main: the command line argument, as its regex features
    video_id,     \* main: which pattern gave the video id
    url,          \* main: the url handed to download_audio
    text,         \* main: the local text
    caption_text, \* main: what try_youtube_captions returned
    log,          \* main: the calls made so far, in order
    output_file   \* main: content of the output file, "unwritten" at start

\* the call and its arguments, never assigned
args == <<op, raw, targets_arg, score, tie_method>>
statVars == <<x, targets, n, lt, le, pct_rank, thresholds, next_p, gap,
              stats, outcome, named, printed>>
mainVars == <<url_or_id, video_id, url, text, caption_text, log,
              output_file>>
vars == <<args, pc, raised, statVars, mainVars>>

NoUrl == [fullmatch |-> FALSE, http |-> FALSE, vparam |-> FALSE,
          short |-> FALSE]
NoStats == [Count |-> -1, Sum |-> Unset, Median |-> Unset,
            Minimum |-> Unset, Maximum |-> Unset, Range |-> Unset,
            Percentiles |-> <<>>]

\* locals before the first statement of a call
InitLocals ==
    /\ n = -1 /\ lt = -1 /\ le = -1
    /\ pct_rank = NoRank
    /\ thresholds = <<>>
    /\ next_p = -1 /\ gap = Unset
    /\ stats = NoStats
    /\ outcome = "none"
    /\ named = -1
    /\ printed = <<>>
    /\ raised = "none"
    /\ video_id = "none" /\ url = NoUrl /\ text = "unset"
    /\ caption_text = "unset"
    /\ log = <<>>
    /\ output_file = "unwritten"

NoStatArgs ==
    /\ raw = <<>> /\ score = Fin(0) /\ targets = <<>> /\ tie_method = "mean"

\* a call goal_maker(score, x, targets, tie_method=...)
InitGoalMaker ==
    /\ op = "goal_maker"
    /\ pc = "gm_clean"
    /\ \/ /\ raw \in RawSeqs
          /\ score \in Scores
          /\ targets = DefaultTargets
       \/ /\ raw \in FiniteSeqs
          /\ score \in Scores
          /\ targets \in TargetChoices
       \/ /\ raw = PopA /\ score = ScoreA /\ targets = DefaultTargets
       \/ /\ raw = PopE /\ score = ScoreE /\ targets = DefaultTargets
    /\ tie_method \in TieChoices
    /\ x = raw
    /\ url_or_id = NoUrl

\* a call analyze_array(x)
InitAnalyzeArray ==
    /\ op = "analyze_array"
    /\ pc = "aa_clean"
    /\ raw \in RawSeqs \cup {PopA}
    /\ score = Fin(0) /\ targets = <<>> /\ tie_method = "mean"
    /\ x = raw
    /\ url_or_id = NoUrl

\* ------------------------------------------------ goal_maker
\* GM_Clean without the return on an empty array
GM_CleanNoReturn ==
    /\ op = "goal_maker" /\ pc = "gm_clean"
    /\ x' = Clean(x)
    /\ pc' = "gm_rank"
    /\ UNCHANGED <<args, targets, n, lt, le, pct_rank, thresholds, next_p,
                   gap, stats, outcome, printed, raised, named, mainVars>>

\* lines 92-97: clean, and leave when nothing is left
GM_Clean ==
    /\ op = "goal_maker" /\ pc = "gm_clean"
    /\ x' = Clean(x)
    /\ IF Len(x') = 0
       THEN /\ printed' = Append(printed, "no_data")
            /\ outcome' = "NoValidData"
            /\ pc' = "done"
       ELSE /\ pc' = "gm_rank"
            /\ UNCHANGED <<printed, outcome>>
    /\ UNCHANGED <<args, targets, n, lt, le, pct_rank, thresholds, next_p,
                   gap, stats, raised, named, mainVars>>

\* GM_Rank falling back to "mean" for an unknown tie_method
GM_RankDefaulting ==
    /\ op = "goal_maker" /\ pc = "gm_rank"
    /\ n' = Len(x)
    /\ lt' = CountLt(x, score)
    /\ le' = CountLe(x, score)
    /\ pct_rank' = RankOf(IF tie_method \in TieMethods THEN tie_method
                          ELSE "mean", lt', le', n')
    /\ pc' = "gm_thresholds"
    /\ UNCHANGED <<args, x, targets, thresholds, next_p, gap, stats,
                   outcome, printed, raised, named, mainVars>>

\* lines 99-113: the percentile rank of the score, or ValueError
GM_Rank ==
    /\ op = "goal_maker" /\ pc = "gm_rank"
    /\ n' = Len(x)
    /\ lt' = CountLt(x, score)
    /\ le' = CountLe(x, score)
    /\ IF tie_method \in TieMethods
       THEN /\ pct_rank' = RankOf(tie_method, lt', le', n')
            /\ pc' = "gm_thresholds"
            /\ UNCHANGED raised
       ELSE /\ raised' = "ValueError"
            /\ pc' = "done"
            /\ UNCHANGED pct_rank
    /\ UNCHANGED <<args, x, targets, thresholds, next_p, gap, stats,
                   outcome, printed, named, mainVars>>

\* lines 116-117: sorted distinct targets and their thresholds
GM_Thresholds ==
    /\ op = "goal_maker" /\ pc = "gm_thresholds"
    /\ targets' = SortSet(Range(targets))
    /\ thresholds' = [p \in Range(targets) |-> Percentile(x, p)]
    /\ pc' = "gm_print"
    /\ UNCHANGED <<args, x, n, lt, le, pct_rank, next_p, gap, stats,
                   outcome, printed, raised, named, mainVars>>

\* lines 120-129: the report header and the table of thresholds
GM_Print ==
    /\ op = "goal_maker" /\ pc = "gm_print"
    /\ printed' = printed \o <<"rank", "thresholds">>
    /\ pc' = "gm_milestone"
    /\ UNCHANGED <<args, x, targets, n, lt, le, pct_rank, thresholds,
                   next_p, gap, stats, outcome, raised, named, mainVars>>

\* Higher with pct_rank <= p for pct_rank < p
HigherOrEqual(ts, r) ==
    {ts[i] : i \in {j \in 1..Len(ts) : r.num <= ts[j] * r.den}}

\* [p for p in targets if pct_rank < p]
Higher(ts, r) == {ts[i] : i \in {j \in 1..Len(ts) : RankBelow(r, ts[j])}}

\* SetMin taking the largest element
SetMinAsLargest(S) == CHOOSE a \in S : \A b \in S : b <= a

\* min(higher), max(targets)
SetMin(S) == CHOOSE a \in S : \A b \in S : a <= b
SetMax(S) == CHOOSE a \in S : \A b \in S : b <= a

\* lines 133-146: the coaching line
GM_Milestone ==
    /\ op = "goal_maker" /\ pc = "gm_milestone"
    /\ pc' = "done"
    /\ LET higher == Higher(targets, pct_rank)
       IN IF higher # {}
          THEN /\ next_p' = SetMin(higher)
               /\ gap' = FSub(thresholds[next_p'], score)
               /\ outcome' = IF FLe(gap', Fin(0)) THEN "AlreadyAtNext"
                             ELSE "ReachNext"
               /\ named' = next_p'
               /\ printed' = Append(printed, "milestone")
               /\ UNCHANGED raised
          ELSE /\ IF targets = <<>>
                  THEN /\ raised' = "ValueError"
                       /\ UNCHANGED <<outcome, named>>
                  ELSE /\ outcome' = "AtOrAboveHighest"
                       /\ named' = SetMax(Range(targets))
                       /\ UNCHANGED raised
               /\ printed' = Append(printed, "milestone")
               /\ UNCHANGED <<next_p, gap>>
    /\ UNCHANGED <<args, x, targets, n, lt, le, pct_rank, thresholds, stats,
                   mainVars>>

\* ------------------------------------------------ analyze_array
RECURSIVE FSum(_)
\* x.sum()
FSum(a) == IF a = <<>> THEN Fin(0) ELSE FAdd(Head(a), FSum(Tail(a)))

\* x / 2 for a value of a whole number of units
FHalf(a) == IF a.k = "fin" THEN Fin(a.v \div 2) ELSE a

\* np.median(x): the middle element, or the mean of the two middle ones
Median(a) ==
    LET m == Len(a)
    IN IF m % 2 = 1 THEN OrderStat(a, m \div 2)
       ELSE FHalf(FAdd(OrderStat(a, m \div 2 - 1), OrderStat(a, m \div 2)))

\* lines 16-21: clean, and leave when nothing is left
AA_Clean ==
    /\ op = "analyze_array" /\ pc = "aa_clean"
    /\ x' = Clean(x)
    /\ IF Len(x') = 0
       THEN /\ printed' = Append(printed, "no_data")
            /\ outcome' = "NoValidData"
            /\ pc' = "done"
       ELSE /\ pc' = "aa_stats"
            /\ UNCHANGED <<printed, outcome>>
    /\ UNCHANGED <<args, targets, n, lt, le, pct_rank, thresholds, next_p,
                   gap, stats, raised, named, mainVars>>

\* lines 23-43: the entries of stats that are exact in hundredths
AA_Stats ==
    /\ op = "analyze_array" /\ pc = "aa_stats"
    /\ n' = Len(x)
    /\ stats' = [Count |-> Len(x),
                 Sum |-> FSum(x),
                 Median |-> Median(x),
                 Minimum |-> OrderStat(x, 0),
                 Maximum |-> OrderStat(x, Len(x) - 1),
                 Range |-> FSub(OrderStat(x, Len(x) - 1), OrderStat(x, 0)),
                 Percentiles |->
                     [p \in Range(DefaultPercentiles) |-> Percentile(x, p)]]
    /\ pc' = "aa_print"
    /\ UNCHANGED <<args, x, targets, lt, le, pct_rank, thresholds, next_p,
                   gap, outcome, printed, raised, named, mainVars>>

\* lines 57-66: the table of statistics
AA_Print ==
    /\ op = "analyze_array" /\ pc = "aa_print"
    /\ printed' = Append(printed, "stats")
    /\ outcome' = "Described"
    /\ pc' = "done"
    /\ UNCHANGED <<args, x, targets, n, lt, le, pct_rank, thresholds,
                   next_p, gap, stats, raised, named, mainVars>>

\* ------------------------------------------------ transcript.py
\* what the three patterns of extract_video_id see in an argument
UrlChoices ==
    {u \in [fullmatch : BOOLEAN, http : BOOLEAN, vparam : BOOLEAN,
            short : BOOLEAN] : u.fullmatch => ~u.vparam /\ ~u.short}

\* f"https://www.youtube.com/watch?v={video_id}"
WatchUrl == [fullmatch |-> FALSE, http |-> TRUE, vparam |-> TRUE,
             short |-> FALSE]

\* extract_video_id: the pattern that gives the id, "error" for ValueError
ExtractVideoId(u) ==
    IF u.fullmatch /\ ~u.http THEN "bare"
    ELSE IF u.vparam THEN "vparam"
    ELSE IF u.short THEN "short"
    ELSE "error"

LangPrefs == {"en", "en-US", "en-GB"}

\* what the caption library does in a run
CaptionEnvs ==
    [installed : BOOLEAN, new_api : BOOLEAN, list_ok : BOOLEAN,
     manual : {{}, {"en"}, {"en-GB"}}, generated : {{}, {"en-US"}},
     first_ok : BOOLEAN, old_ok : BOOLEAN, empty : BOOLEAN]

\* try_youtube_captions: "None", or the joined caption lines
TryYoutubeCaptions(env) ==
    LET joined == IF env.empty THEN "" ELSE "captions"
    IN IF ~env.installed THEN "None"
       ELSE IF env.new_api
            THEN IF ~env.list_ok THEN "None"
                 ELSE IF \E lang \in LangPrefs : lang \in env.manual
                      THEN joined
                 ELSE IF \E lang \in LangPrefs : lang \in env.generated
                      THEN joined
                 ELSE IF env.first_ok THEN joined
                 ELSE "None"
       ELSE IF env.old_ok THEN joined
       ELSE "None"

\* Truthy as "text is not None"
TruthyNotNone(t) == t # "None"

\* "if text:" for a str | None
Truthy(t) == t # "None" /\ t # ""

\* a run of main with one command line argument
InitMain ==
    /\ op = "main"
    /\ pc = "m_start"
    /\ url_or_id \in UrlChoices
    /\ NoStatArgs
    /\ x = <<>>

\* lines 141-148: the arguments, the video id and the url
M_Start ==
    /\ op = "main" /\ pc = "m_start"
    /\ log' = Append(log, "extract_video_id")
    /\ IF ExtractVideoId(url_or_id) = "error"
       THEN /\ raised' = "ValueError"
            /\ pc' = "done"
            /\ UNCHANGED <<video_id, url>>
       ELSE /\ video_id' = ExtractVideoId(url_or_id)
            /\ url' = IF url_or_id.http THEN url_or_id ELSE WatchUrl
            /\ pc' = "m_captions"
            /\ UNCHANGED raised
    /\ UNCHANGED <<args, statVars, url_or_id, text, caption_text,
                   output_file>>

\* lines 151-155: captions first, written and done when there are some
M_Captions ==
    /\ op = "main" /\ pc = "m_captions"
    /\ \E env \in CaptionEnvs : text' = TryYoutubeCaptions(env)
    /\ caption_text' = text'
    /\ IF Truthy(text')
       THEN /\ output_file' = text'
            /\ log' = log \o <<"try_youtube_captions", "write_captions">>
            /\ pc' = "done"
       ELSE /\ log' = Append(log, "try_youtube_captions")
            /\ pc' = "m_download"
            /\ UNCHANGED output_file
    /\ UNCHANGED <<args, raised, statVars, url_or_id, video_id, url>>

\* lines 158-159 and download_audio
M_Download ==
    /\ op = "main" /\ pc = "m_download"
    /\ log' = Append(log, "download_audio")
    /\ \E returncode \in {0, 1}, candidates \in 0..2 :
          IF returncode # 0
          THEN raised' = "RuntimeError" /\ pc' = "done"
          ELSE IF ExtractVideoId(url) = "error"
          THEN raised' = "ValueError" /\ pc' = "done"
          ELSE IF candidates = 0
          THEN raised' = "FileNotFoundError" /\ pc' = "done"
          ELSE pc' = "m_transcribe" /\ UNCHANGED raised
    /\ UNCHANGED <<args, statVars, url_or_id, video_id, url, text,
                   caption_text, output_file>>

\* lines 161-163 and transcribe_mp3
M_Transcribe ==
    /\ op = "main" /\ pc = "m_transcribe"
    /\ pc' = "done"
    /\ \E ok \in BOOLEAN, lines \in {"", "speech"} :
          IF ok
          THEN /\ text' = lines
               /\ output_file' = lines
               /\ log' = log \o <<"transcribe_mp3", "write_audio">>
               /\ UNCHANGED raised
          ELSE /\ raised' = "Exception"
               /\ log' = Append(log, "transcribe_mp3")
               /\ UNCHANGED <<text, output_file>>
    /\ UNCHANGED <<args, statVars, url_or_id, video_id, url, caption_text>>

\* ------------------------------------------------ specification
Init ==
    /\ InitLocals
    /\ \/ InitGoalMaker
       \/ InitAnalyzeArray
       \/ InitMain
    /\ targets_arg = targets

Next ==
    \/ GM_Clean
    \/ GM_Rank
    \/ GM_Thresholds
    \/ GM_Print
    \/ GM_Milestone
    \/ AA_Clean
    \/ AA_Stats
    \/ AA_Print
    \/ M_Start
    \/ M_Captions
    \/ M_Download
    \/ M_Transcribe

Spec == Init /\ [][Next]_vars

\* ------------------------------------------------ properties
\* goal_maker has cleaned a population that is not empty
GMCleaned == op = "goal_maker" /\ pc # "gm_clean" /\ Len(x) > 0
\* goal_maker has computed the rank of the score
GMRanked == GMCleaned /\ pct_rank # NoRank
\* goal_maker has computed the thresholds
GMThresholds == GMRanked /\ pc \in {"gm_print", "gm_milestone", "done"}
\* goal_maker has returned after the coaching line
GMReported == GMThresholds /\ pc = "done" /\ raised = "none"
AllFinite(a) == \A i \in 1..Len(a) : IsFinite(a[i])

\* fractions a = [num, den] with den > 0
RLe(a, b) == a.num * b.den <= b.num * a.den
REq(a, b) == a.num * b.den = b.num * a.den
Whole(k) == [num |-> k, den |-> 1]

\* the population values below / not above a score, counted one by one
NumBelow(a, s) == LET Below(v) == FLt(v, s) IN Len(SelectSeq(a, Below))
NumUpTo(a, s) == LET UpTo(v) == FLe(v, s) IN Len(SelectSeq(a, UpTo))

\* C1: for a non-empty cleaned population of size n and a score, with lt the
\* number of values below the score and le the number of values not above
\* it, the rank that goal_maker computes is 100*lt/n under "strict",
\* 100*le/n under "weak" and 100*((lt+le)/2)/n under "mean"; population
\* [10,20,30,40,50] with score 30 gives 40, 60 and 50.
C1_RankFormula ==
    GMRanked =>
        LET cl == NumBelow(x, score)
            ce == NumUpTo(x, score)
            m == Len(x)
        IN /\ tie_method = "strict" =>
                  REq(pct_rank, [num |-> 100 * cl, den |-> m])
           /\ tie_method = "weak" =>
                  REq(pct_rank, [num |-> 100 * ce, den |-> m])
           /\ tie_method = "mean" =>
                  REq(pct_rank, [num |-> 100 * (cl + ce), den |-> 2 * m])
           /\ (raw = PopA /\ score = ScoreA) =>
                  /\ tie_method = "strict" => REq(pct_rank, Whole(40))
                  /\ tie_method = "weak" => REq(pct_rank, Whole(60))
                  /\ tie_method = "mean" => REq(pct_rank, Whole(50))

\* the worked scenario has run under the default tie method
C1_Witness ==
    /\ GMRanked /\ pc = "done"
    /\ raw = PopA /\ score = ScoreA /\ tie_method = "mean"
    /\ REq(pct_rank, Whole(50))

\* C2: for a non-empty population and any score the three tie methods are
\* ordered, strict <= mean <= weak, all three ranks lie in [0, 100], the
\* weak rank of the largest population value is 100 and the strict rank of
\* the smallest is 0.
C2_TieOrdering ==
    GMCleaned =>
        LET rs == PctRank("strict", score, x)
            rm == PctRank("mean", score, x)
            rw == PctRank("weak", score, x)
        IN /\ RLe(Whole(0), rs) /\ RLe(rs, rm)
           /\ RLe(rm, rw) /\ RLe(rw, Whole(100))
           /\ pct_rank # NoRank => pct_rank = PctRank(tie_method, score, x)
           /\ \A i \in 1..Len(x) :
                 /\ (\A j \in 1..Len(x) : FLe(x[j], x[i])) =>
                        REq(PctRank("weak", x[i], x), Whole(100))
                 /\ (\A j \in 1..Len(x) : FLe(x[i], x[j])) =>
                        REq(PctRank("strict", x[i], x), Whole(0))

\* the score ties with the largest of several values: the ranks differ
C2_Witness ==
    /\ GMRanked /\ pc = "done" /\ tie_method = "weak"
    /\ Len(x) > 1 /\ AllFinite(x)
    /\ \A j \in 1..Len(x) : FLe(x[j], score)
    /\ \E j \in 1..Len(x) : x[j] = score
    /\ \E j \in 1..Len(x) : FLt(x[j], score)
    /\ REq(pct_rank, Whole(100))
    /\ ~RLe(PctRank("mean", score, x), PctRank("strict", score, x))

\* C3 as stated: for every target p the weak rank of threshold(p) is at
\* least p and the strict rank of threshold(p) is at most p.
C3_RoundTrip ==
    (GMThresholds /\ AllFinite(x)) =>
        \A p \in DOMAIN thresholds :
            /\ RLe(Whole(p), PctRank("weak", thresholds[p], x))
            /\ RLe(PctRank("strict", thresholds[p], x), Whole(p))

\* C3 amended: for a non-empty population of n finite values and every
\* target p, the weak rank of threshold(p) is at least p - p/n and the
\* strict rank of threshold(p) is at most p + (100 - p)/n.
C3_RoundTripWithinOne ==
    (GMThresholds /\ AllFinite(x)) =>
        \A p \in DOMAIN thresholds :
            LET m == Len(x)
            IN /\ RLe([num |-> p * (m - 1), den |-> m],
                      PctRank("weak", thresholds[p], x))
               /\ RLe(PctRank("strict", thresholds[p], x),
                      [num |-> p * (m - 1) + 100, den |-> m])

\* a threshold strictly between two values, whose weak rank is below p
C3_Witness ==
    /\ GMThresholds /\ AllFinite(x) /\ pc = "done"
    /\ \E p \in DOMAIN thresholds :
          /\ \A i \in 1..Len(x) : x[i] # thresholds[p]
          /\ ~RLe(Whole(p), PctRank("weak", thresholds[p], x))
          /\ thresholds[p] = Percentile(x, p)

\* the worked scenario E has run: population 1..100, score 95, the default
\* targets and the mean tie method
ScenarioE ==
    /\ op = "goal_maker" /\ pc = "done"
    /\ raw = PopE /\ score = ScoreE
    /\ targets_arg = DefaultTargets /\ tie_method = "mean"

\* C4 as stated: in scenario E the current rank is 95.5 and the next
\* milestone is 99 with threshold 99.01 and gap 4.01.
C4_ScenarioE ==
    ScenarioE =>
        /\ REq(pct_rank, [num |-> 191, den |-> 2])
        /\ next_p = 99
        /\ thresholds[99] = Fin(9901)
        /\ gap = Fin(401)

\* C4 amended: in scenario E the current rank is 94.5 and the next
\* milestone is 95, to be reached, with threshold 95.05 and gap 0.05; the
\* threshold of target 99 is 99.01.
C4_ScenarioE_Amended ==
    ScenarioE =>
        /\ REq(pct_rank, [num |-> 189, den |-> 2])
        /\ next_p = 95 /\ named = 95
        /\ thresholds[95] = Fin(9505)
        /\ gap = Fin(5)
        /\ outcome = "ReachNext"
        /\ thresholds[99] = Fin(9901)
        /\ raised = "none"

\* scenario E has run to its coaching line
C4_Witness == ScenarioE /\ outcome = "ReachNext" /\ lt = 94 /\ le = 95

\* goal_maker has returned from a call with a non-empty population, a
\* non-empty targets argument and one of the three tie methods
Sought ==
    /\ op = "goal_maker" /\ pc = "done"
    /\ Len(x) > 0
    /\ targets_arg # <<>>
    /\ tie_method \in TieMethods

\* the score is above the threshold of the highest target, mean tie method,
\* finite population
AboveHighestThreshold ==
    /\ Sought /\ tie_method = "mean" /\ AllFinite(x)
    /\ FLt(thresholds[SetMax(Range(targets_arg))], score)

\* C5 as stated: whenever the score is strictly greater than the threshold
\* of the highest target, under the mean tie method, the call ends in the
\* "already at/above the highest target" line naming the highest target and
\* in no milestone line.
C5_ScenarioF ==
    AboveHighestThreshold =>
        /\ outcome = "AtOrAboveHighest"
        /\ named = SetMax(Range(targets_arg))

\* C5 amended: whenever the score is strictly greater than the threshold of
\* the highest target (finite population, mean tie method) the call never
\* ends in "to reach the next target"; it ends in "already at/above the
\* highest target", naming the highest target, exactly when the rank of the
\* score is not below the highest target, and otherwise in the
\* negative-gap "already at/above the next mark".
C5_ScenarioF_Amended ==
    AboveHighestThreshold =>
        LET top == SetMax(Range(targets_arg))
        IN /\ outcome \in {"AtOrAboveHighest", "AlreadyAtNext"}
           /\ outcome = "AtOrAboveHighest" <=>
                  pct_rank.num >= top * pct_rank.den
           /\ outcome = "AtOrAboveHighest" => named = top
           /\ outcome = "AlreadyAtNext" => FLt(gap, Fin(0))

\* the score is above the highest threshold and its rank below the target
C5_Witness ==
    /\ AboveHighestThreshold
    /\ outcome = "AlreadyAtNext"
    /\ named = SetMax(Range(targets_arg))

\* C6: the targets are deduplicated and sorted ascending; the milestone is
\* the smallest target strictly above the current rank, with gap =
\* threshold(target) - score; gap <= 0 is reported as already achieved and
\* gap > 0 as to be reached; the highest-target line is printed exactly when
\* no target is strictly above the rank; exactly one of the three lines is
\* printed per call with a non-empty population and non-empty targets.
C6_MilestoneSelection ==
    Sought =>
        LET T == Range(targets_arg)
            above == {t \in T : pct_rank.num < t * pct_rank.den}
            IsMilestone(line) == line = "milestone"
        IN /\ raised = "none"
           /\ Range(targets) = T
           /\ \A i \in 1..(Len(targets) - 1) : targets[i] < targets[i + 1]
           /\ DOMAIN thresholds = T
           /\ outcome \in {"AtOrAboveHighest", "AlreadyAtNext", "ReachNext"}
           /\ Len(SelectSeq(printed, IsMilestone)) = 1
           /\ outcome = "AtOrAboveHighest" <=> above = {}
           /\ above = {} =>
                  /\ next_p = -1
                  /\ \A t \in T : t <= named
                  /\ named \in T
           /\ above # {} =>
                  /\ next_p \in above
                  /\ \A t \in above : next_p <= t
                  /\ named = next_p
                  /\ gap = FSub(thresholds[next_p], score)
                  /\ FLe(gap, Fin(0)) => outcome = "AlreadyAtNext"
                  /\ FLt(Fin(0), gap) => outcome = "ReachNext"
                  /\ outcome = "AlreadyAtNext" => FLe(gap, Fin(0))

\* duplicated, unsorted targets, the lower one already passed: the
\* milestone is the higher one, still to be reached
C6_Witness ==
    /\ Sought /\ AllFinite(x)
    /\ targets_arg = <<50, 90, 50>>
    /\ targets = <<50, 90>>
    /\ ~RankBelow(pct_rank, 50)
    /\ next_p = 90
    /\ outcome = "ReachNext"

\* analyze_array or goal_maker has cleaned its population to nothing
Emptied ==
    /\ op \in {"goal_maker", "analyze_array"}
    /\ pc \notin {"gm_clean", "aa_clean"}
    /\ x = <<>>

\* C7: analyze_array and goal_maker, called on a population that is empty
\* after cleaning, end in the distinct no-data outcome and compute no
\* statistics, no rank and no thresholds.
C7_EmptyPopulation ==
    Emptied =>
        /\ pc = "done"
        /\ outcome = "NoValidData"
        /\ printed = <<"no_data">>
        /\ n = -1 /\ lt = -1 /\ le = -1
        /\ pct_rank = NoRank
        /\ thresholds = <<>>
        /\ next_p = -1 /\ gap = Unset /\ named = -1
        /\ stats = NoStats

\* goal_maker has returned on a population of missing and nan entries only
C7_Witness ==
    /\ Emptied /\ op = "goal_maker" /\ pc = "done"
    /\ Len(raw) > 1
    /\ \E i \in 1..Len(raw) : raw[i] = None
    /\ \E i \in 1..Len(raw) : raw[i] = NaN
    /\ outcome = "NoValidData"

\* goal_maker runs on a non-empty population with an unknown tie_method
InvalidTie ==
    /\ op = "goal_maker" /\ pc # "gm_clean" /\ Len(x) > 0
    /\ tie_method \notin TieMethods

\* C8: goal_maker called with a tie_method outside {strict, weak, mean} on
\* a non-empty population fails with the invalid-tie-method error; no rank
\* is computed under some default method, and the error is raised before
\* any part of the report (rank, thresholds, milestone) is produced.
C8_InvalidTiePolicy ==
    InvalidTie =>
        /\ pc \in {"gm_rank", "done"}
        /\ pc = "done" => raised = "ValueError"
        /\ pct_rank = NoRank
        /\ thresholds = <<>>
        /\ printed = <<>>
        /\ outcome = "none"
        /\ next_p = -1 /\ gap = Unset /\ named = -1

\* the call has ended in ValueError after counting lt and le
C8_Witness ==
    /\ InvalidTie /\ pc = "done" /\ raised = "ValueError"
    /\ n = Len(x) /\ lt >= 0 /\ le >= lt
    /\ targets_arg # <<>>

\* C9: every element of the cleaned sample of analyze_array and goal_maker
\* is a finite number (missing, nan and infinite entries are all dropped)
\* and every finite input element is kept.
C9_CleanedFinite ==
    (op \in {"goal_maker", "analyze_array"}
         /\ pc \notin {"gm_clean", "aa_clean"}) =>
        /\ AllFinite(x)
        /\ x = SelectSeq(raw, IsFinite)

\* positions of a call in the log of main
Pos(e) == {i \in 1..Len(log) : log[i] = e}

\* C10: in main the caption fetch comes before any download or
\* transcription; the audio is downloaded and transcribed only if the
\* caption fetch returned None or an empty string, and transcribed only
\* right after a download that succeeded; the output file is written at
\* most once, and from captions if and only if the caption fetch returned
\* non-empty text; a failed video-id extraction, download or transcription
\* ends the run with the output file unwritten.
C10_OrderedFallback ==
    op = "main" =>
        LET writes == Pos("write_captions") \cup Pos("write_audio")
        IN /\ \A i \in Pos("download_audio") \cup Pos("transcribe_mp3") :
                 \E j \in Pos("try_youtube_captions") : j < i
           /\ Pos("download_audio") # {} => caption_text \in {"None", ""}
           /\ \A i \in Pos("transcribe_mp3") :
                 i > 1 /\ log[i - 1] = "download_audio"
           /\ Cardinality(writes) <= 1
           /\ output_file # "unwritten" <=> writes # {}
           /\ Pos("write_captions") # {} =>
                 /\ caption_text \notin {"unset", "None", ""}
                 /\ output_file = caption_text
           /\ (pc = "done" /\ caption_text \notin {"unset", "None", ""}) =>
                 Pos("write_captions") # {}
           /\ raised # "none" => pc = "done" /\ output_file = "unwritten"

\* empty captions: the run fell back to the audio and wrote its transcript
C10_Witness ==
    /\ op = "main" /\ pc = "done"
    /\ caption_text = ""
    /\ log = <<"extract_video_id", "try_youtube_captions", "download_audio",
               "transcribe_mp3", "write_audio">>
    /\ output_file = "speech"
====
